---- MODULE Spec2Model ----
(***************************************************************************)
(* aconcat: concatenation of audio files by driving ffmpeg.                *)
(*                                                                         *)
(* The module models the pipeline of main() with diagnostic parsing        *)
(* (validateInputFile, parseProgressLine, runFFmpegWithProgress, main) as  *)
(* a state machine, and parseProgressLine as a pure function over lines    *)
(* whose digit fields may exceed the 64-bit machine integer.               *)
(*                                                                         *)
(* -verbose only adds log output and is left out.  The multiplier is a     *)
(* float64 in the program; the callers pass the integer constants below.   *)
(***************************************************************************)
EXTENDS Integers, Sequences, FiniteSets, TLC

VARIABLES
    \* ---- command line (flag.Parse) ----
    helpFlag,       \* -help
    outputFile,     \* -output, a path <<stem, ext>>; NoOutput when not given
    sampleRate,     \* -sample-rate
    inputFiles,     \* flag.Args(): sequence of input files
    \* ---- main() ----
    pc,             \* position of main
    idx,            \* loop index over inputFiles (1-based)
    convertedFiles, \* []string of intermediate paths
    defers,         \* deferred calls of main, in registration order
    exitCode,       \* NotExited until the process has exited
    usagePrinted,   \* usage() has been called
    fatalMsg,       \* message of logger.Fatalf, NoMsg if none
    \* ---- file system ----
    tempDirExists,  \* os.TempDir()/audio_concat exists
    files,          \* audio files written by ffmpeg that exist
    listExists,     \* the concat-list-*.txt file exists
    listContent,    \* its lines
    \* ---- runFFmpegWithProgress ----
    rpc,            \* position of the runner
    cmd,            \* the command it runs
    bar,            \* value of the progress bar it was given
    nLines,         \* lines read from stderr so far
    runErr,         \* error it returned
    invocations,    \* commands handed to cmd.Start(), in order
    \* ---- a single call of parseProgressLine ----
    goarch,         \* build target; decides out-of-range float->int conversion
    line,           \* the line
    multiplier,     \* the multiplier (of the runner's call in the pipeline)
    result,         \* the returned percentage
    parsed,         \* the call has returned
    \* ---- validateInputFile ----
    warned,         \* paths logger.Warnf was called for
    valErr,         \* error returned by a single call of validateInputFile
    \* ---- the pipeline without diagnostic parsing (src/main.go) ----
    verbose,        \* -verbose
    tickerOn,       \* the progress goroutine has been started
    tick,           \* its loop counter i
    \* ---- two runs of the tool on one machine ----
    procs,          \* per run: position, loop index, inputs, convertedFiles
    sharedDir,      \* os.TempDir()/audio_concat exists
    sharedFiles     \* files in it, each with the run that wrote it

mainVars   == <<pc, idx, convertedFiles, defers, exitCode, usagePrinted, fatalMsg>>
argVars    == <<helpFlag, outputFile, sampleRate, inputFiles>>
fsVars     == <<tempDirExists, files, listExists, listContent>>
runVars    == <<rpc, cmd, bar, nLines, runErr, invocations>>
parseVars  == <<goarch, line, multiplier, result, parsed>>
earlyVars  == <<verbose, tickerOn, tick>>
concVars   == <<procs, sharedDir, sharedFiles>>
auxVars    == <<valErr, earlyVars, concVars>>
vars       == <<mainVars, argVars, fsVars, runVars, parseVars, warned, auxVars>>

(***************************************************************************)
(* Bounds of the model.                                                    *)
(***************************************************************************)
MaxInputs == 3      \* most input files on the command line
MaxLines  == 2      \* most stderr lines one ffmpeg process emits
MaxFields == 2      \* most fields in one line given to parseProgressLine

(***************************************************************************)
(* Constants of the program.                                               *)
(***************************************************************************)
maxProgress                == 100
progressReEncodeMultiplier == 2
progressConcatMultiplier   == 1
progressFinalMultiplier    == 2

(***************************************************************************)
(* Machine integers.  Go's int is 64 bits on the build targets; a decimal  *)
(* digit string is an unbounded natural.  Both are kept as little-endian   *)
(* limbs in base 2^16 so that wrap-around is computed exactly: a natural   *)
(* has five limbs (values below 2^80), an int64 has four (two's            *)
(* complement).                                                            *)
(***************************************************************************)
Base == 256 * 256
Half == Base \div 2

\* the natural n < 2^31 as a five-limb digit-string value
Nat5(n) == <<n % Base, (n \div Base) % Base, 0, 0, 0>>

\* strconv.Atoi / strconv.ParseInt(s, 10, 64) succeed iff the value is at most 2^63-1
FitsInt64(d) == d[5] = 0 /\ d[4] < Half

\* hours*3600 + minutes*60 in int64 arithmetic (wraps modulo 2^64)
WrapMulAdd(h, m) ==
    LET t1 == h[1] * 3600 + m[1] * 60
        t2 == h[2] * 3600 + m[2] * 60 + (t1 \div Base)
        t3 == h[3] * 3600 + m[3] * 60 + (t2 \div Base)
        t4 == h[4] * 3600 + m[4] * 60 + (t3 \div Base)
    IN  <<t1 % Base, t2 % Base, t3 % Base, t4 % Base>>

IsNeg(x) == x[4] >= Half

\* an int64 whose absolute value is at most 2^20
IsSmall(x) ==
    \/ x[4] = 0 /\ x[3] = 0 /\ x[2] < 16
    \/ x[4] = Base - 1 /\ x[3] = Base - 1 /\ x[2] >= Base - 16

\* the value of a small int64
SmallVal(x) == IF IsNeg(x) THEN (x[2] - Base) * Base + x[1] ELSE x[2] * Base + x[1]

\* integer division truncating toward zero, as the conversion int(float) does
Trunc(n, d) == IF n >= 0 THEN n \div d ELSE -((-n) \div d)

\* Representative of every int64 below -(2^20)+100: such a result does not
\* fit TLC's integers, and the program only ever tests its sign.
FarNegative == -(2^20)

\* Representative of every int64 of 2^20 or more: above maxProgress.
FarPositive == 2^30

\* float64(x)*mult is 2^63 or more for a non-negative int64 x: float64
\* rounds to 53 bits, so x reaches 2^63/mult from 512/mult below it
FloatOverflows(x, mult) ==
    LET top   == Half \div mult
        slack == 512 \div mult
    IN  \/ x[4] >= top
        \/ x[4] = top - 1 /\ x[3] = Base - 1 /\ x[2] = Base - 1 /\ x[1] >= Base - slack

\* int(v) for a float64 v >= 2^63: implementation-specific in Go.  amd64
\* yields the most negative int64, arm64 saturates at the largest one.
OutOfRangeConv(arch) == IF arch = "amd64" THEN FarNegative ELSE FarPositive

Min(a, b) == IF a < b THEN a ELSE b

(***************************************************************************)
(* Lines of ffmpeg's diagnostic stream.  A line is a sequence of fields;   *)
(* a field is plain text, `out_time_ms=<digits>` or                        *)
(* `time=<digits>:<digits>:<digits>.<digits>`.  Seconds are kept in        *)
(* hundredths (ffmpeg prints two decimals), digit strings as naturals.     *)
(***************************************************************************)
TextField        == [k |-> "text"]
UsField(v)       == [k |-> "out_time_ms", v |-> v]
TimeField(h, m, cs) == [k |-> "time", h |-> h, m |-> m, cs |-> cs]

\* regexp.FindStringSubmatch: the leftmost field either alternative matches,
\* 0 when there is none
RECURSIVE FirstMatch(_, _)
FirstMatch(l, i) ==
    IF i > Len(l) THEN 0
    ELSE IF l[i].k # "text" THEN i
    ELSE FirstMatch(l, i + 1)

\* int((float64(timeMs) / 1000000.0) * multiplier * 10)
ProgressTenths(v, mult) ==
    IF v[5] = 0 /\ v[4] = 0 /\ v[3] = 0 /\ v[2] < Half \div 2
    THEN ((v[2] * Base + v[1]) * mult) \div 100000
    ELSE FarPositive    \* 2^30 microseconds or more

\* ScaledSeconds with the multiplier left out
ScaledSecondsNoMultiplier(h, m, cs, mult, arch) ==
    LET t == WrapMulAdd(h, m)
    IN  IF IsSmall(t) THEN Trunc(SmallVal(t) * 100 + cs, 100)
        ELSE IF IsNeg(t) THEN FarNegative
        ELSE IF FloatOverflows(t, 1) THEN OutOfRangeConv(arch)
        ELSE FarPositive

\* int(totalSeconds*multiplier), totalSeconds = float64(hours*3600+minutes*60) + seconds
ScaledSeconds(h, m, cs, mult, arch) ==
    LET t == WrapMulAdd(h, m)
    IN  IF IsSmall(t) THEN Trunc((SmallVal(t) * 100 + cs) * mult, 100)
        ELSE IF IsNeg(t) THEN FarNegative
        ELSE IF FloatOverflows(t, mult) THEN OutOfRangeConv(arch)
        ELSE FarPositive

parseProgressLine(l, mult, arch) ==
    LET i == FirstMatch(l, 1)
    IN  IF i = 0 THEN 0
        ELSE IF l[i].k = "out_time_ms" /\ FitsInt64(l[i].v)
             THEN Min(ProgressTenths(l[i].v, mult), maxProgress)
        ELSE IF l[i].k = "out_time_ms" THEN 0    \* Atoi("") fails
        ELSE IF ~FitsInt64(l[i].h) \/ ~FitsInt64(l[i].m) THEN 0
        ELSE Min(ScaledSeconds(l[i].h, l[i].m, l[i].cs, mult, arch), maxProgress)

(***************************************************************************)
(* Paths.  A path is a tuple of its parts, the extension last.             *)
(***************************************************************************)
Nil      == <<>>            \* the nil error
NoMsg    == <<>>
NoCmd    == [kind |-> "none", in |-> <<>>, ar |-> 0, out |-> <<>>]
NoOutput == <<"", "">>      \* -output not given: the empty string
NotExited == 0 - 1

Ext(p) == p[Len(p)]         \* filepath.Ext

\* strings.ToLower on the extensions that occur
ToLower(s) ==
    CASE s = ".FLAC" -> ".flac"
      [] s = ".TXT"  -> ".txt"
      [] s = ".MP3"  -> ".mp3"
      [] OTHER       -> s

audioExtensions == {".mp3", ".wav", ".flac", ".aac", ".ogg", ".m4a", ".wma", ".opus"}

tempDir == "audio_concat"   \* filepath.Join(os.TempDir(), "audio_concat")

absPath(f) == <<f.dir, f.name, f.ext>>

\* filepath.Join(tempDir, filepath.Base(absPath)+"_converted.flac")
convertedFile(f) == <<tempDir, f.name, f.ext, "_converted.flac">>

\* strings.TrimSuffix(*outputFile, filepath.Ext(*outputFile)) + ".flac"
flacFile(out) == <<out[1], ".flac">>

\* NeedsFinalEncode comparing the extension as written
NeedsFinalEncodeCaseSensitive(out) == Ext(out) # ".flac"

\* strings.ToLower(filepath.Ext(*outputFile)) != ".flac"
NeedsFinalEncode(out) == ToLower(Ext(out)) # ".flac"

\* ArgsInvalid without the check of the number of inputs
ArgsInvalidOutputOnly(inputs, out) == out = NoOutput

\* len(inputFiles) < 2 || *outputFile == ""
ArgsInvalid(inputs, out) == Len(inputs) < 2 \/ out = NoOutput

(***************************************************************************)
(* Input files.  st is what the file system holds at the path.             *)
(***************************************************************************)
InputSet ==
    { [dir |-> "/m", name |-> "a",      ext |-> ".mp3", st |-> "regular"],
      [dir |-> "/n", name |-> "a",      ext |-> ".mp3", st |-> "regular"],
      [dir |-> "/m", name |-> "b",      ext |-> ".TXT", st |-> "regular"],
      [dir |-> "/m", name |-> "gone",   ext |-> ".wav", st |-> "absent"],
      [dir |-> "/m", name |-> "album",  ext |-> "",     st |-> "directory"],
      [dir |-> "/m", name |-> "locked", ext |-> ".ogg", st |-> "unreadable"] }

OutputFiles == { NoOutput, <<"out", ".flac">>, <<"out", ".FLAC">>,
                 <<"out", ".wav">>, <<"out", "">> }

SampleRates == {44100, 48000}

SeqsUpTo(S, n) == UNION { [1..k -> S] : k \in 0..n }

\* validateInputFile without the check of fileInfo.Mode().IsRegular()
validateInputFileNoModeCheck(f) ==
    CASE f.st = "absent"       -> <<"file does not exist: ", absPath(f)>>
      [] f.st = "inaccessible" -> <<"failed to access file ", absPath(f)>>
      [] f.st = "unreadable"   -> <<"file is not readable: ", absPath(f)>>
      [] OTHER                 -> Nil

\* validateInputFile: the error it returns, Nil on success
validateInputFile(f) ==
    CASE f.st = "absent"       -> <<"file does not exist: ", absPath(f)>>
      [] f.st = "inaccessible" -> <<"failed to access file ", absPath(f)>>
      [] f.st = "directory"    -> <<"path is not a regular file: ", absPath(f)>>
      [] f.st = "unreadable"   -> <<"file is not readable: ", absPath(f)>>
      [] OTHER                 -> Nil

\* WarnsOnExtension comparing the extension as written
WarnsOnExtensionCaseSensitive(f) == f.ext \notin audioExtensions

\* ext := strings.ToLower(filepath.Ext(absPath)); !audioExtensions[ext]
WarnsOnExtension(f) == ToLower(f.ext) \notin audioExtensions

\* the paths warned about after validateInputFile(f): Warnf is reached only
\* when no check has failed
WarnedAfter(w, f) ==
    IF validateInputFile(f) = Nil /\ WarnsOnExtension(f)
    THEN w \cup {absPath(f)} ELSE w

(***************************************************************************)
(* The ffmpeg commands main builds.                                        *)
(***************************************************************************)
\* part_002:235, a command that is built and then replaced before it is run
ReEncodeCmdWithFlag(f, sr) ==
    [kind |-> "reencode", in |-> absPath(f), ar |-> sr, out |-> convertedFile(f)]

\* part_002:244, the command handed to runFFmpegWithProgress
ReEncodeCmd(f, sr) ==
    [kind |-> "reencode", in |-> absPath(f), ar |-> 48000, out |-> convertedFile(f)]

ConcatCmd(out) ==
    [kind |-> "concat", in |-> <<"concat-list">>, ar |-> 0, out |-> flacFile(out)]

FinalCmd(out) ==
    [kind |-> "final", in |-> flacFile(out), ar |-> 0, out |-> out]

\* digit strings at the limits of int64
Hwrap    == <<48351, 30874, 13398, 18, 0>>          \* 5124095576030431
Hover    == <<24176, 15437, 6699, 9, 0>>            \* 2562047788015216
Hbig     == <<44856, 40486, 36117, 4, 0>>           \* 1281023894007608
Mover    == <<8739, 8738, 8738, 546, 0>>            \* 153722867280912931
MaxInt64 == <<65535, 65535, 65535, 32767, 0>>       \* 2^63 - 1
TwoTo63  == <<0, 0, 0, 32768, 0>>                   \* 2^63

\* stderr lines an ffmpeg process of the pipeline emits
DiagLines ==
    { <<TextField>>,
      <<TimeField(Hwrap, Nat5(0), 0)>>,
      <<UsField(Nat5(1500000))>>,
      <<TimeField(Nat5(0), Nat5(0), 150)>>,
      <<TimeField(Nat5(0), Nat5(1), 3050)>> }

(***************************************************************************)
(* Initial states: the process has parsed its command line.                *)
(***************************************************************************)
ValidateIdle == valErr = Nil

EarlyIdle ==
    /\ verbose = FALSE
    /\ tickerOn = FALSE
    /\ tick = 0

ConcIdle ==
    /\ procs = <<>>
    /\ sharedDir = FALSE
    /\ sharedFiles = {}

AuxIdle == ValidateIdle /\ EarlyIdle /\ ConcIdle

ParseIdle ==
    /\ goarch = "amd64"
    /\ line = <<>>
    /\ multiplier = 1
    /\ result = 0
    /\ parsed = FALSE

Init ==
    /\ helpFlag \in BOOLEAN
    /\ outputFile \in OutputFiles
    /\ sampleRate \in SampleRates
    /\ inputFiles \in SeqsUpTo(InputSet, MaxInputs)
    /\ pc = "start"
    /\ idx = 1
    /\ convertedFiles = <<>>
    /\ defers = <<>>
    /\ exitCode = NotExited
    /\ usagePrinted = FALSE
    /\ fatalMsg = NoMsg
    /\ tempDirExists = FALSE
    /\ files = {}
    /\ listExists = FALSE
    /\ listContent = <<>>
    /\ rpc = "idle"
    /\ cmd = NoCmd
    /\ bar = 0
    /\ nLines = 0
    /\ runErr = Nil
    /\ invocations = <<>>
    /\ ParseIdle
    /\ warned = {}
    /\ AuxIdle

(***************************************************************************)
(* Leaving main.                                                           *)
(***************************************************************************)
\* logger.Fatalf: logs and calls os.Exit(1); deferred calls do not run
Fatalf(msg) ==
    /\ pc' = "exited"
    /\ exitCode' = 1
    /\ fatalMsg' = msg
    /\ UNCHANGED <<idx, convertedFiles, defers, usagePrinted>>

Registered(d, call) == \E k \in 1..Len(d) : d[k] = call

\* main returns: the deferred os.Remove(listFile.Name()) and
\* os.RemoveAll(tempDir) run, then the process exits with status 0
ReturnFromMain(fs) ==
    /\ pc' = "exited"
    /\ exitCode' = 0
    /\ listExists' = (listExists /\ ~Registered(defers, "Remove"))
    /\ listContent' = IF Registered(defers, "Remove") THEN <<>> ELSE listContent
    /\ tempDirExists' = (tempDirExists /\ ~Registered(defers, "RemoveAll"))
    /\ files' = IF Registered(defers, "RemoveAll")
                THEN {f \in fs : f[1] # tempDir} ELSE fs
    /\ defers' = <<>>
    /\ UNCHANGED <<idx, convertedFiles, usagePrinted, fatalMsg>>

(***************************************************************************)
(* main, up to the first ffmpeg process.                                   *)
(***************************************************************************)
\* ShowHelp leaving with os.Exit(1) as the usage error does
ShowHelpExitOne ==
    /\ pc = "start"
    /\ helpFlag
    /\ usagePrinted' = TRUE
    /\ pc' = "exited"
    /\ exitCode' = 1
    /\ UNCHANGED <<idx, convertedFiles, defers, fatalMsg>>
    /\ UNCHANGED <<argVars, fsVars, runVars, parseVars>>
    /\ UNCHANGED <<warned, auxVars>>

\* if *helpFlag { flag.Usage(); return }
ShowHelp ==
    /\ pc = "start"
    /\ helpFlag
    /\ usagePrinted' = TRUE
    /\ pc' = "exited"
    /\ exitCode' = 0
    /\ UNCHANGED <<idx, convertedFiles, defers, fatalMsg>>
    /\ UNCHANGED <<argVars, fsVars, runVars, parseVars>>
    /\ UNCHANGED <<warned, auxVars>>

\* too few inputs or no output: usage and os.Exit(1)
UsageError ==
    /\ pc = "start"
    /\ ~helpFlag
    /\ ArgsInvalid(inputFiles, outputFile)
    /\ usagePrinted' = TRUE
    /\ pc' = "exited"
    /\ exitCode' = 1
    /\ UNCHANGED <<idx, convertedFiles, defers, fatalMsg>>
    /\ UNCHANGED <<argVars, fsVars, runVars, parseVars>>
    /\ UNCHANGED <<warned, auxVars>>

\* the arguments are accepted: the validation loop begins
BeginValidation ==
    /\ pc = "start"
    /\ ~helpFlag
    /\ ~ArgsInvalid(inputFiles, outputFile)
    /\ pc' = "validate"
    /\ idx' = 1
    /\ UNCHANGED <<convertedFiles, defers, exitCode, usagePrinted, fatalMsg>>
    /\ UNCHANGED <<argVars, fsVars, runVars, parseVars>>
    /\ UNCHANGED <<warned, auxVars>>

\* one iteration of the validation loop
ValidateInput ==
    /\ pc = "validate"
    /\ warned' = WarnedAfter(warned, inputFiles[idx])
    /\ LET err == validateInputFile(inputFiles[idx])
       IN  IF err # Nil
           THEN Fatalf(<<"Input validation failed", err>>)
           ELSE /\ IF idx < Len(inputFiles)
                   THEN idx' = idx + 1 /\ pc' = pc
                   ELSE idx' = 1 /\ pc' = "mkdir"
                /\ UNCHANGED <<convertedFiles, defers, exitCode, usagePrinted, fatalMsg>>
    /\ UNCHANGED <<argVars, fsVars, runVars, parseVars>>
    /\ UNCHANGED auxVars

\* os.MkdirAll(tempDir, 0755); defer os.RemoveAll(tempDir)
MkdirTemp ==
    /\ pc = "mkdir"
    /\ \E ok \in BOOLEAN :
         IF ok
         THEN /\ tempDirExists' = TRUE
              /\ defers' = Append(defers, "RemoveAll")
              /\ pc' = "reencode"
              /\ idx' = 1
              /\ UNCHANGED <<convertedFiles, exitCode, usagePrinted, fatalMsg>>
         ELSE /\ Fatalf(<<"Failed to create temporary directory">>)
              /\ UNCHANGED tempDirExists
    /\ UNCHANGED <<files, listExists, listContent>>
    /\ UNCHANGED <<argVars, runVars, parseVars>>
    /\ UNCHANGED <<warned, auxVars>>

(***************************************************************************)
(* runFFmpegWithProgress(cmd, progressBar, verbose, multiplier).           *)
(***************************************************************************)
\* the call: main hands over a command, a new progress bar and a multiplier
CallRunner(c, m) ==
    /\ rpc' = "start"
    /\ cmd' = c
    /\ bar' = 0             \* progressbar.NewOptions(maxProgress, ...)
    /\ multiplier' = m
    /\ nLines' = 0
    /\ runErr' = Nil
    /\ UNCHANGED invocations

Invocation(c, st, cause) == [cmd |-> c, status |-> st, cause |-> cause]

SetLast(s, e) == [s EXCEPT ![Len(s)] = e]

\* cmd.StderrPipe() and cmd.Start()
RunStart ==
    /\ rpc = "start"
    /\ \E outcome \in {"ok", "nopipe", "nostart"} :
         IF outcome = "ok"
         THEN /\ rpc' = "scan"
              /\ runErr' = Nil
              /\ invocations' = Append(invocations, Invocation(cmd, "running", ""))
         ELSE IF outcome = "nopipe"
         THEN /\ rpc' = "returned"
              /\ runErr' = <<"failed to create stderr pipe: ", "pipe: too many open files">>
              /\ invocations' = Append(invocations,
                     Invocation(cmd, outcome, "pipe: too many open files"))
         ELSE /\ rpc' = "returned"
              /\ runErr' = <<"failed to start ffmpeg: ", "exec: not found">>
              /\ invocations' = Append(invocations,
                     Invocation(cmd, outcome, "exec: not found"))
    /\ UNCHANGED <<cmd, bar, nLines>>
    /\ UNCHANGED <<mainVars, argVars, fsVars, goarch, line, multiplier, result, parsed>>
    /\ UNCHANGED <<warned, auxVars>>

\* SetProgress applying every parsed value but 0
SetProgressNonZero(b, currentProgress) == IF currentProgress # 0 THEN currentProgress ELSE b

\* if currentProgress > 0 { progressBar.Set(currentProgress) }
SetProgress(b, currentProgress) == IF currentProgress > 0 THEN currentProgress ELSE b

\* one iteration of the scanner loop
RunScanLine ==
    /\ rpc = "scan"
    /\ nLines < MaxLines
    /\ \E l \in DiagLines :
         bar' = SetProgress(bar, parseProgressLine(l, multiplier, goarch))
    /\ nLines' = nLines + 1
    /\ UNCHANGED <<rpc, cmd, runErr, invocations>>
    /\ UNCHANGED <<mainVars, argVars, fsVars, goarch, line, multiplier, result, parsed>>
    /\ UNCHANGED <<warned, auxVars>>

\* BarAfterWait without progressBar.Set(maxProgress)
BarAfterWaitKeep(b, ok) == b

\* the bar after cmd.Wait(): progressBar.Set(maxProgress) only without error
BarAfterWait(b, ok) == IF ok THEN maxProgress ELSE b

\* end of stream, then cmd.Wait().  A successful ffmpeg has written its
\* output file; a failed one may have left a partial one.
RunWait ==
    /\ rpc = "scan"
    /\ \E ok \in BOOLEAN, partial \in BOOLEAN :
         /\ ok => partial
         /\ files' = IF partial THEN files \cup {cmd.out} ELSE files
         /\ bar' = BarAfterWait(bar, ok)
         /\ runErr' = IF ok THEN Nil ELSE <<"ffmpeg failed: ", "exit status 1">>
         /\ invocations' = SetLast(invocations,
                IF ok THEN Invocation(cmd, "ok", "")
                      ELSE Invocation(cmd, "failed", "exit status 1"))
    /\ rpc' = "returned"
    /\ UNCHANGED <<cmd, nLines>>
    /\ UNCHANGED <<tempDirExists, listExists, listContent>>
    /\ UNCHANGED <<mainVars, argVars, goarch, line, multiplier, result, parsed>>
    /\ UNCHANGED <<warned, auxVars>>

(***************************************************************************)
(* main, from the re-encode loop to the end.                               *)
(***************************************************************************)
\* IsFatal overlooking the error of cmd.Wait()
IsFatalStartOnly(err) == err # Nil /\ err[1] # "ffmpeg failed: "

\* IsFatal with the error of the runner dropped
IsFatalNever(err) == FALSE

\* if err := runFFmpegWithProgress(...); err != nil { logger.Fatalf(...) }
IsFatal(err) == err # Nil

\* loop body up to the call of the runner
ReEncodeStart ==
    /\ pc = "reencode"
    /\ rpc = "idle"
    /\ CallRunner(ReEncodeCmd(inputFiles[idx], sampleRate), progressReEncodeMultiplier)
    /\ UNCHANGED <<mainVars, argVars, fsVars, goarch, line, result, parsed>>
    /\ UNCHANGED <<warned, auxVars>>

\* the runner has returned to the re-encode loop
ReEncodeReturn ==
    /\ pc = "reencode"
    /\ rpc = "returned"
    /\ IF IsFatal(runErr)
       THEN /\ Fatalf(<<"ffmpeg failed to re-encode", absPath(inputFiles[idx]), runErr>>)
            /\ UNCHANGED rpc
       ELSE /\ convertedFiles' = Append(convertedFiles, convertedFile(inputFiles[idx]))
            /\ IF idx < Len(inputFiles)
               THEN idx' = idx + 1 /\ pc' = pc
               ELSE idx' = idx /\ pc' = "createlist"
            /\ rpc' = "idle"
            /\ UNCHANGED <<defers, exitCode, usagePrinted, fatalMsg>>
    /\ UNCHANGED <<cmd, bar, nLines, runErr, invocations>>
    /\ UNCHANGED <<argVars, fsVars, parseVars>>
    /\ UNCHANGED <<warned, auxVars>>

\* os.CreateTemp("", "concat-list-*.txt"); defer os.Remove(listFile.Name())
CreateList ==
    /\ pc = "createlist"
    /\ \E ok \in BOOLEAN :
         IF ok
         THEN /\ listExists' = TRUE
              /\ listContent' = <<>>
              /\ defers' = Append(defers, "Remove")
              /\ pc' = "writelist"
              /\ UNCHANGED <<idx, convertedFiles, exitCode, usagePrinted, fatalMsg>>
         ELSE /\ Fatalf(<<"Failed to create temporary file">>)
              /\ UNCHANGED <<listExists, listContent>>
    /\ UNCHANGED <<tempDirExists, files>>
    /\ UNCHANGED <<argVars, runVars, parseVars>>
    /\ UNCHANGED <<warned, auxVars>>

ListEntry(path) == <<"file", path>>     \* "file '%s'\n"

\* WriteList with the error of fmt.Fprintf ignored
WriteListIgnoringErrors ==
    /\ pc = "writelist"
    /\ \E n \in 0..Len(convertedFiles) :
         listContent' = [k \in 1..n |-> ListEntry(convertedFiles[k])]
    /\ pc' = "readlist"
    /\ UNCHANGED <<idx, convertedFiles, defers, exitCode, usagePrinted, fatalMsg>>
    /\ UNCHANGED <<tempDirExists, files, listExists>>
    /\ UNCHANGED <<argVars, runVars, parseVars>>
    /\ UNCHANGED <<warned, auxVars>>

\* the loop of fmt.Fprintf: the first n writes succeed
WriteList ==
    /\ pc = "writelist"
    /\ \E n \in 0..Len(convertedFiles) :
         /\ listContent' = [k \in 1..n |-> ListEntry(convertedFiles[k])]
         /\ IF n = Len(convertedFiles)
            THEN /\ pc' = "readlist"
                 /\ UNCHANGED <<idx, convertedFiles, defers, exitCode, usagePrinted, fatalMsg>>
            ELSE Fatalf(<<"Failed to write to temporary file list">>)
    /\ UNCHANGED <<tempDirExists, files, listExists>>
    /\ UNCHANGED <<argVars, runVars, parseVars>>
    /\ UNCHANGED <<warned, auxVars>>

\* listFile.Seek(0, io.SeekStart); io.ReadAll(listFile)
ReadList ==
    /\ pc = "readlist"
    /\ \E ok \in BOOLEAN :
         IF ok
         THEN /\ pc' = "concat"
              /\ UNCHANGED <<idx, convertedFiles, defers, exitCode, usagePrinted, fatalMsg>>
         ELSE Fatalf(<<"Failed to read temporary file">>)
    /\ UNCHANGED <<argVars, fsVars, runVars, parseVars>>
    /\ UNCHANGED <<warned, auxVars>>

ConcatStart ==
    /\ pc = "concat"
    /\ rpc = "idle"
    /\ CallRunner(ConcatCmd(outputFile), progressConcatMultiplier)
    /\ UNCHANGED <<mainVars, argVars, fsVars, goarch, line, result, parsed>>
    /\ UNCHANGED <<warned, auxVars>>

\* the runner has returned from the concatenation; without a final encode
\* main returns here
ConcatReturn ==
    /\ pc = "concat"
    /\ rpc = "returned"
    /\ IF IsFatal(runErr)
       THEN /\ Fatalf(<<"ffmpeg failed with error", runErr>>)
            /\ UNCHANGED <<rpc, fsVars>>
       ELSE IF NeedsFinalEncode(outputFile)
       THEN /\ pc' = "final"
            /\ rpc' = "idle"
            /\ UNCHANGED <<idx, convertedFiles, defers, exitCode, usagePrinted, fatalMsg>>
            /\ UNCHANGED fsVars
       ELSE /\ ReturnFromMain(files)
            /\ rpc' = "idle"
    /\ UNCHANGED <<cmd, bar, nLines, runErr, invocations>>
    /\ UNCHANGED <<argVars, parseVars>>
    /\ UNCHANGED <<warned, auxVars>>

FinalStart ==
    /\ pc = "final"
    /\ rpc = "idle"
    /\ CallRunner(FinalCmd(outputFile), progressFinalMultiplier)
    /\ UNCHANGED <<mainVars, argVars, fsVars, goarch, line, result, parsed>>
    /\ UNCHANGED <<warned, auxVars>>

\* the runner has returned from the final encode: os.Remove(flacFile),
\* then main returns
FinalReturn ==
    /\ pc = "final"
    /\ rpc = "returned"
    /\ IF IsFatal(runErr)
       THEN /\ Fatalf(<<"ffmpeg failed to re-encode to", outputFile, runErr>>)
            /\ UNCHANGED <<rpc, fsVars>>
       ELSE /\ ReturnFromMain(files \ {flacFile(outputFile)})
            /\ rpc' = "idle"
    /\ UNCHANGED <<cmd, bar, nLines, runErr, invocations>>
    /\ UNCHANGED <<argVars, parseVars>>
    /\ UNCHANGED <<warned, auxVars>>

Next ==
    \/ ShowHelp
    \/ UsageError
    \/ BeginValidation
    \/ ValidateInput
    \/ MkdirTemp
    \/ ReEncodeStart
    \/ RunStart
    \/ RunScanLine
    \/ RunWait
    \/ ReEncodeReturn
    \/ CreateList
    \/ WriteList
    \/ ReadList
    \/ ConcatStart
    \/ ConcatReturn
    \/ FinalStart
    \/ FinalReturn

Spec == Init /\ [][Next]_vars

(***************************************************************************)
(* parseProgressLine as a pure function: one call on a line drawn from     *)
(* fields that include digit strings at the limits of int64.               *)
(***************************************************************************)

ParseFields ==
    { TextField,
      UsField(Nat5(0)), UsField(Nat5(1000000)), UsField(Nat5(1500000)),
      UsField(Nat5(90500000)), UsField(MaxInt64), UsField(TwoTo63),
      TimeField(Nat5(0), Nat5(0), 0), TimeField(Nat5(0), Nat5(0), 100),
      TimeField(Nat5(0), Nat5(0), 150), TimeField(Nat5(0), Nat5(1), 3050),
      TimeField(Nat5(1), Nat5(0), 0),
      TimeField(Hwrap, Nat5(0), 0), TimeField(Hover, Nat5(0), 0),
      TimeField(Hbig, Nat5(0), 0), TimeField(MaxInt64, Nat5(0), 0),
      TimeField(TwoTo63, Nat5(0), 0), TimeField(Nat5(0), Mover, 0) }

Multipliers == {progressReEncodeMultiplier, progressConcatMultiplier, progressFinalMultiplier}

PipelineOff ==
    /\ helpFlag = FALSE
    /\ outputFile = NoOutput
    /\ sampleRate = 48000
    /\ inputFiles = <<>>
    /\ pc = "off"
    /\ idx = 1
    /\ convertedFiles = <<>>
    /\ defers = <<>>
    /\ exitCode = NotExited
    /\ usagePrinted = FALSE
    /\ fatalMsg = NoMsg
    /\ tempDirExists = FALSE
    /\ files = {}
    /\ listExists = FALSE
    /\ listContent = <<>>
    /\ rpc = "idle"
    /\ cmd = NoCmd
    /\ bar = 0
    /\ nLines = 0
    /\ runErr = Nil
    /\ invocations = <<>>
    /\ warned = {}

InitParse ==
    /\ PipelineOff
    /\ AuxIdle
    /\ goarch \in {"amd64", "arm64"}
    /\ line \in SeqsUpTo(ParseFields, MaxFields)
    /\ multiplier \in Multipliers
    /\ result = 0
    /\ parsed = FALSE

\* the call of parseProgressLine
ParseCall ==
    /\ pc = "off"
    /\ ~parsed
    /\ result' = parseProgressLine(line, multiplier, goarch)
    /\ parsed' = TRUE
    /\ UNCHANGED <<goarch, line, multiplier>>
    /\ UNCHANGED <<mainVars, argVars, fsVars, runVars>>
    /\ UNCHANGED <<warned, auxVars>>

NextParse == ParseCall

SpecParse == InitParse /\ [][NextParse]_vars

(***************************************************************************)
(* Properties.                                                             *)
(***************************************************************************)
Exited       == pc = "exited"
Succeeded    == pc = "exited" /\ exitCode = 0 /\ ~helpFlag
NoTempState  == ~tempDirExists /\ ~listExists
NothingDone  == invocations = <<>> /\ rpc = "idle" /\ ~tempDirExists
                /\ files = {} /\ ~listExists
Count(kind)  == Cardinality({k \in 1..Len(invocations) : invocations[k].cmd.kind = kind})
LastInvocation == invocations[Len(invocations)]

\* C1: on every exit path, success or fatal halt, the temporary directory
\* and the manifest file have been removed when the process has exited.
C1_CleanupOnEveryExit == Exited => NoTempState

\* C2: when a run with two or more valid inputs and only successful ffmpeg
\* invocations has finished, exactly one output file exists, it is at the
\* requested output path, and no temporary file remains.
C2_OneOutputAtRequestedPath ==
    Succeeded => files = {outputFile} /\ NoTempState

\* C3: if an input at any position is not a readable regular file, the run
\* halts with a non-zero status before any ffmpeg invocation and before the
\* temporary directory, an intermediate or the manifest is created.
C3_InvalidInputHaltsFirst ==
    (\E k \in 1..Len(inputFiles) : inputFiles[k].st # "regular")
        => /\ NothingDone
           /\ pc \in {"start", "validate", "exited"}
           /\ (Exited /\ ~helpFlag => exitCode = 1)

C3_Witness ==
    /\ Exited
    /\ Len(inputFiles) = 3
    /\ inputFiles[1].st = "regular"
    /\ inputFiles[2].st = "regular"
    /\ inputFiles[3].st = "absent"
    /\ fatalMsg # NoMsg
    /\ fatalMsg[1] = "Input validation failed"

\* C4: with fewer than two inputs or without -output (and without -help)
\* the process prints usage and exits with code 1; no ffmpeg is invoked and
\* no temporary directory or file is created.
C4_UsageErrorExit ==
    (~helpFlag /\ (Len(inputFiles) < 2 \/ outputFile = <<"", "">>))
        => /\ NothingDone
           /\ pc \in {"start", "exited"}
           /\ (Exited => exitCode = 1 /\ usagePrinted)

C4_Witness ==
    /\ Exited
    /\ ~helpFlag
    /\ Len(inputFiles) = 1
    /\ inputFiles[1].st = "regular"
    /\ outputFile = <<"out", ".wav">>
    /\ exitCode = 1

IsFlacExt(out) == Ext(out) \in {".flac", ".FLAC"}

\* C5: if the output extension is .flac in any letter case, no final
\* re-encode is ever invoked and the combined intermediate is the output;
\* otherwise at most one final re-encode is invoked, only directly after a
\* successful concatenation, a successful run has invoked exactly one, and
\* the combined intermediate is gone once it has succeeded.
C5_FinalEncodeOnlyWhenNeeded ==
    /\ IsFlacExt(outputFile) =>
          /\ Count("final") = 0
          /\ (Succeeded => flacFile(outputFile) \in files)
    /\ ~IsFlacExt(outputFile) =>
          /\ Count("final") <= 1
          /\ \A k \in 1..Len(invocations) :
                invocations[k].cmd.kind = "final" =>
                    /\ k > 1
                    /\ invocations[k-1].cmd.kind = "concat"
                    /\ invocations[k-1].status = "ok"
          /\ (Succeeded => Count("final") = 1 /\ flacFile(outputFile) \notin files)

C5_Witness ==
    /\ Succeeded
    /\ outputFile = <<"out", ".FLAC">>
    /\ Count("concat") = 1
    /\ files # {}

HasFailed(inv) == inv.status \in {"failed", "nostart", "nopipe"}

C6_FailureState ==
    \A k \in 1..Len(invocations) :
        HasFailed(invocations[k]) =>
            /\ k = Len(invocations)
            /\ rpc = "returned"
            /\ runErr # Nil
            /\ runErr[2] = invocations[k].cause
            /\ pc \in {"reencode", "concat", "final", "exited"}
            /\ (Exited => exitCode = 1 /\ fatalMsg # NoMsg
                                       /\ fatalMsg[Len(fatalMsg)] = runErr)

C6_FailureStep ==
    (invocations # <<>> /\ HasFailed(LastInvocation) /\ ~Exited)
        => (pc' = "exited" /\ exitCode' = 1 /\ invocations' = invocations)

\* C6: when an ffmpeg invocation fails to start or exits non-zero, the
\* runner returns an error carrying the underlying error text, the next step
\* of main terminates the process with status 1, the failed invocation is
\* not retried and no later invocation is started.
C6_FailureIsFatal == [](C6_FailureState) /\ [][C6_FailureStep]_vars

C6_Witness ==
    /\ Exited
    /\ exitCode = 1
    /\ Len(invocations) = 3
    /\ LastInvocation.cmd.kind = "concat"
    /\ LastInvocation.status = "failed"

TwoDigits(d) == d[1] <= 99 /\ d[2] = 0 /\ d[3] = 0 /\ d[4] = 0 /\ d[5] = 0

\* the field the pattern matches in l is its k-th and is a time= field
MatchesTimeAt(l, k) ==
    /\ l[k].k = "time"
    /\ \A j \in 1..(k-1) : l[j].k = "text"

\* C7: on a line whose match is a time=HH:MM:SS.ms timestamp the result is
\* min(floor((3600*HH + 60*MM + SS.ms) * multiplier), 100), so that
\* time=00:01:30.50 yields 90 with multiplier 1 and 100 with multiplier 2;
\* on a line that matches neither pattern the result is 0.
C7_TimestampPercentage ==
    parsed =>
        /\ (\A k \in 1..Len(line) : line[k].k = "text") => result = 0
        /\ \A k \in 1..Len(line) :
              (MatchesTimeAt(line, k) /\ TwoDigits(line[k].h) /\ TwoDigits(line[k].m))
                 => result = Min((((3600 * line[k].h[1] + 60 * line[k].m[1]) * 100
                                     + line[k].cs) * multiplier) \div 100, 100)
        /\ line = <<TimeField(Nat5(0), Nat5(1), 3050)>>
              => result = IF multiplier = 1 THEN 90 ELSE 100

C7_Witness ==
    /\ parsed
    /\ line = <<TextField, TimeField(Nat5(0), Nat5(1), 3050)>>
    /\ multiplier = 1
    /\ result = 90

\* C8: for every line and every multiplier of the pipeline the result of
\* parseProgressLine lies in 0..100, also when the digit fields are near the
\* limits of the machine integer.
C8_ResultInRange == parsed => result \in 0..100

\* C9: within one run of the runner the progress bar never decreases, and
\* every run starts from a fresh bar at 0.
C9_BarMonotone ==
    [][ /\ (rpc = "scan" /\ rpc' \in {"scan", "returned"}) => bar' >= bar
        /\ (rpc # "start" /\ rpc' = "start") => bar' = 0 ]_vars

\* C10: when the runner returns after a successful wait the bar is 100
\* whatever it was before; when it returns an error the bar is left as it
\* was.
C10_BarForcedOnSuccessOnly ==
    [][ (rpc # "returned" /\ rpc' = "returned") =>
            IF invocations'[Len(invocations')].status = "ok"
            THEN bar' = 100
            ELSE bar' = bar ]_vars

C10_Witness ==
    /\ rpc = "returned"
    /\ LastInvocation.status = "ok"
    /\ nLines = 0
    /\ bar = 100

ReEncodes == {k \in 1..Len(invocations) : invocations[k].cmd.kind = "reencode"}

\* C12: inputs at different positions are re-encoded to different
\* intermediate paths, and the intermediates collected for the manifest are
\* as many distinct paths as there are inputs re-encoded.
C12_OneIntermediatePerInput ==
    /\ \A i, j \in ReEncodes : i # j => invocations[i].cmd.out # invocations[j].cmd.out
    /\ Cardinality({convertedFiles[k] : k \in 1..Len(convertedFiles)}) = Len(convertedFiles)

\* C13: the sample-rate argument of every re-encode command that is run
\* equals the value of the -sample-rate flag.
C13_SampleRateFromFlag ==
    \A k \in ReEncodes : invocations[k].cmd.ar = sampleRate

\* C14: after a fatal halt no file remains at the requested output path or
\* at the combined-intermediate path derived from it.
C14_NoPartialOutput ==
    (Exited /\ exitCode = 1)
        => outputFile \notin files /\ flacFile(outputFile) \notin files

\* C16: with -help, whatever the other arguments, the process prints usage
\* and exits with code 0 without validating, creating temporary state or
\* invoking ffmpeg.
C16_HelpExitsZero ==
    helpFlag =>
        /\ NothingDone
        /\ pc \in {"start", "exited"}
        /\ fatalMsg = NoMsg
        /\ (Exited => exitCode = 0 /\ usagePrinted)

C16_Witness ==
    /\ Exited
    /\ helpFlag
    /\ usagePrinted
    /\ exitCode = 0
    /\ Len(inputFiles) = 3
    /\ inputFiles[1].st = "absent"
    /\ outputFile = <<"", "">>

\* C17: at most one ffmpeg process runs at a time, an invocation is started
\* only after every earlier one has exited successfully, and the order is
\* the re-encode of inputs 1..n, the concatenation, the final encode.
C17_PhasesInOrder ==
    /\ Len(invocations) <= Len(inputFiles) + 2
    /\ \A k \in 1..Len(invocations) :
          /\ k < Len(invocations) => invocations[k].status = "ok"
          /\ invocations[k].status = "running" => (k = Len(invocations) /\ rpc = "scan")
          /\ k <= Len(inputFiles) =>
                /\ invocations[k].cmd.kind = "reencode"
                /\ invocations[k].cmd.in =
                      <<inputFiles[k].dir, inputFiles[k].name, inputFiles[k].ext>>
          /\ k = Len(inputFiles) + 1 => invocations[k].cmd.kind = "concat"
          /\ k = Len(inputFiles) + 2 => invocations[k].cmd.kind = "final"
    /\ rpc = "scan" => (invocations # <<>> /\ LastInvocation.status = "running")

C17_Witness ==
    /\ Len(inputFiles) = 3
    /\ Len(invocations) = 5
    /\ LastInvocation.status = "running"
    /\ inputFiles[1] # inputFiles[2]

\* C18: when the concatenation is invoked the manifest holds one entry per
\* input, the i-th naming the intermediate of the i-th input, it was written
\* completely before, and there is at most one concatenation invocation.
C18_ManifestComplete ==
    /\ Count("concat") <= 1
    /\ (Count("concat") = 1 /\ ~(Exited /\ exitCode = 0)) =>
          /\ listExists
          /\ listContent =
                [k \in 1..Len(inputFiles) |->
                    <<"file", <<"audio_concat", inputFiles[k].name,
                                inputFiles[k].ext, "_converted.flac">> >>]

C18_Witness ==
    /\ Count("concat") = 1
    /\ LastInvocation.status = "running"
    /\ Len(inputFiles) = 3
    /\ inputFiles[1].name # inputFiles[2].name
    /\ Len(listContent) = 3

\* C20: for the same whole number of seconds and the same multiplier, a line
\* with out_time_ms= yields the percentage a line with time= yields.
C20_SameForBothEncodings ==
    parsed =>
        \A sec \in 0..100 :
            line = <<UsField(Nat5(sec * 1000000))>> =>
                result = parseProgressLine(<<TimeField(Nat5(0), Nat5(0), sec * 100)>>,
                                           multiplier, goarch)


(***************************************************************************)
(* validateInputFile on its own: one call on one path.  The path's         *)
(* extension and what the file system holds there are drawn from           *)
(* ValidateFiles.                                                          *)
(***************************************************************************)
ValidateExts ==
    { ".mp3", ".MP3", ".wav", ".flac", ".FLAC", ".aac", ".ogg", ".m4a",
      ".wma", ".opus", ".txt", ".TXT", "" }

FileStates == {"absent", "inaccessible", "directory", "unreadable", "regular"}

ValidateFiles == [dir : {"/m"}, name : {"x"}, ext : ValidateExts, st : FileStates]

InitValidate ==
    /\ helpFlag = FALSE
    /\ outputFile = NoOutput
    /\ sampleRate = 48000
    /\ inputFiles \in [1..1 -> ValidateFiles]
    /\ pc = "v_call"
    /\ idx = 1
    /\ convertedFiles = <<>>
    /\ defers = <<>>
    /\ exitCode = NotExited
    /\ usagePrinted = FALSE
    /\ fatalMsg = NoMsg
    /\ tempDirExists = FALSE
    /\ files = {}
    /\ listExists = FALSE
    /\ listContent = <<>>
    /\ rpc = "idle"
    /\ cmd = NoCmd
    /\ bar = 0
    /\ nLines = 0
    /\ runErr = Nil
    /\ invocations = <<>>
    /\ warned = {}
    /\ ParseIdle
    /\ AuxIdle

\* the call of validateInputFile
ValidateCall ==
    /\ pc = "v_call"
    /\ valErr' = validateInputFile(inputFiles[1])
    /\ warned' = WarnedAfter(warned, inputFiles[1])
    /\ pc' = "v_done"
    /\ UNCHANGED <<idx, convertedFiles, defers, exitCode, usagePrinted, fatalMsg>>
    /\ UNCHANGED <<argVars, fsVars, runVars, parseVars, earlyVars, concVars>>

NextValidate == ValidateCall

SpecValidate == InitValidate /\ [][NextValidate]_vars

\* the extensions the validator knows, in the spellings ValidateExts holds
KnownSpellings ==
    { ".mp3", ".MP3", ".wav", ".flac", ".FLAC", ".aac", ".ogg", ".m4a",
      ".wma", ".opus" }

\* C15: the validator rejects a missing path, a path that is not a regular
\* file and a file that cannot be opened for reading, each with its own
\* error; a regular readable file is accepted whatever its extension, with a
\* warning exactly when the extension, compared case-insensitively, is not a
\* known one; and the call changes nothing in the file system.
C15_ValidatorClassifies ==
    pc = "v_done" =>
        LET f == inputFiles[1] IN
        /\ f.st = "absent"     => valErr # Nil /\ valErr[1] = "file does not exist: "
        /\ f.st = "directory"  => valErr # Nil /\ valErr[1] = "path is not a regular file: "
        /\ f.st = "unreadable" => valErr # Nil /\ valErr[1] = "file is not readable: "
        /\ f.st = "regular"    => /\ valErr = Nil
                                  /\ (warned # {}) <=> (f.ext \notin KnownSpellings)
        /\ f.st # "regular"    => warned = {}
        /\ warned \subseteq {<<f.dir, f.name, f.ext>>}
        /\ ~tempDirExists /\ files = {} /\ ~listExists

C15_Witness ==
    /\ pc = "v_done"
    /\ inputFiles[1].st = "regular"
    /\ inputFiles[1].ext = ".MP3"
    /\ valErr = Nil
    /\ warned = {}


(***************************************************************************)
(* The pipeline without diagnostic parsing (src/main.go).  Every ffmpeg    *)
(* process is a blocking cmd.Run(); the bar is advanced by a goroutine     *)
(* started before the concatenation.  Its positions carry the prefix e_.   *)
(***************************************************************************)
EarlyInputSet ==
    { [dir |-> "/m", name |-> "a", ext |-> ".mp3", st |-> "regular"],
      [dir |-> "/m", name |-> "b", ext |-> ".wav", st |-> "regular"] }

\* for i := 0; i < 100; i++
tickerIterations == 100

InitEarly ==
    /\ helpFlag \in BOOLEAN
    /\ outputFile \in OutputFiles
    /\ sampleRate \in SampleRates
    /\ inputFiles \in SeqsUpTo(EarlyInputSet, MaxInputs)
    /\ pc = "e_start"
    /\ idx = 1
    /\ convertedFiles = <<>>
    /\ defers = <<>>
    /\ exitCode = NotExited
    /\ usagePrinted = FALSE
    /\ fatalMsg = NoMsg
    /\ tempDirExists = FALSE
    /\ files = {}
    /\ listExists = FALSE
    /\ listContent = <<>>
    /\ rpc = "idle"
    /\ cmd = NoCmd
    /\ bar = 0
    /\ nLines = 0
    /\ runErr = Nil
    /\ invocations = <<>>
    /\ ParseIdle
    /\ warned = {}
    /\ ValidateIdle
    /\ ConcIdle
    /\ verbose \in BOOLEAN
    /\ tickerOn = FALSE
    /\ tick = 0

\* what no step of main in src/main.go touches
EarlyFrame ==
    /\ UNCHANGED <<argVars, parseVars, warned, valErr, concVars, verbose>>
    /\ UNCHANGED <<rpc, nLines, runErr>>

\* if *helpFlag { flag.Usage(); return }
EShowHelp ==
    /\ pc = "e_start"
    /\ helpFlag
    /\ usagePrinted' = TRUE
    /\ pc' = "exited"
    /\ exitCode' = 0
    /\ UNCHANGED <<idx, convertedFiles, defers, fatalMsg>>
    /\ UNCHANGED <<fsVars, cmd, bar, invocations, tickerOn, tick>>
    /\ EarlyFrame

\* too few inputs or no output: usage and os.Exit(1)
EUsageError ==
    /\ pc = "e_start"
    /\ ~helpFlag
    /\ ArgsInvalid(inputFiles, outputFile)
    /\ usagePrinted' = TRUE
    /\ pc' = "exited"
    /\ exitCode' = 1
    /\ UNCHANGED <<idx, convertedFiles, defers, fatalMsg>>
    /\ UNCHANGED <<fsVars, cmd, bar, invocations, tickerOn, tick>>
    /\ EarlyFrame

\* os.MkdirAll(tempDir, 0755); defer os.RemoveAll(tempDir)
EMkdirTemp ==
    /\ pc = "e_start"
    /\ ~helpFlag
    /\ ~ArgsInvalid(inputFiles, outputFile)
    /\ \E ok \in BOOLEAN :
         IF ok
         THEN /\ tempDirExists' = TRUE
              /\ defers' = Append(defers, "RemoveAll")
              /\ pc' = "e_reencode"
              /\ idx' = 1
              /\ UNCHANGED <<convertedFiles, exitCode, usagePrinted, fatalMsg>>
         ELSE /\ Fatalf(<<"Failed to create temporary directory">>)
              /\ UNCHANGED tempDirExists
    /\ UNCHANGED <<files, listExists, listContent>>
    /\ UNCHANGED <<cmd, bar, invocations, tickerOn, tick>>
    /\ EarlyFrame

\* one iteration of the re-encode loop: cmd.Run() with *sampleRate
EReEncode ==
    /\ pc = "e_reencode"
    /\ \E ok \in BOOLEAN, partial \in BOOLEAN :
         LET c == ReEncodeCmdWithFlag(inputFiles[idx], sampleRate) IN
         /\ ok => partial
         /\ cmd' = c
         /\ files' = IF partial THEN files \cup {c.out} ELSE files
         /\ invocations' = Append(invocations,
                IF ok THEN Invocation(c, "ok", "")
                      ELSE Invocation(c, "failed", "exit status 1"))
         /\ IF ok
            THEN /\ convertedFiles' = Append(convertedFiles, c.out)
                 /\ IF idx < Len(inputFiles)
                    THEN idx' = idx + 1 /\ pc' = pc
                    ELSE idx' = idx /\ pc' = "e_createlist"
                 /\ UNCHANGED <<defers, exitCode, usagePrinted, fatalMsg>>
            ELSE Fatalf(<<"ffmpeg failed to re-encode", absPath(inputFiles[idx])>>)
    /\ UNCHANGED <<tempDirExists, listExists, listContent>>
    /\ UNCHANGED <<bar, tickerOn, tick>>
    /\ EarlyFrame

\* os.CreateTemp("", "concat-list-*.txt"); defer os.Remove(listFile.Name())
ECreateList ==
    /\ pc = "e_createlist"
    /\ \E ok \in BOOLEAN :
         IF ok
         THEN /\ listExists' = TRUE
              /\ listContent' = <<>>
              /\ defers' = Append(defers, "Remove")
              /\ pc' = "e_writelist"
              /\ UNCHANGED <<idx, convertedFiles, exitCode, usagePrinted, fatalMsg>>
         ELSE /\ Fatalf(<<"Failed to create temporary file">>)
              /\ UNCHANGED <<listExists, listContent>>
    /\ UNCHANGED <<tempDirExists, files>>
    /\ UNCHANGED <<cmd, bar, invocations, tickerOn, tick>>
    /\ EarlyFrame

\* the loop of fmt.Fprintf: the first n writes succeed
EWriteList ==
    /\ pc = "e_writelist"
    /\ \E n \in 0..Len(convertedFiles) :
         /\ listContent' = [k \in 1..n |-> ListEntry(convertedFiles[k])]
         /\ IF n = Len(convertedFiles)
            THEN /\ pc' = "e_readlist"
                 /\ UNCHANGED <<idx, convertedFiles, defers, exitCode, usagePrinted, fatalMsg>>
            ELSE Fatalf(<<"Failed to write to temporary file list">>)
    /\ UNCHANGED <<tempDirExists, files, listExists>>
    /\ UNCHANGED <<cmd, bar, invocations, tickerOn, tick>>
    /\ EarlyFrame

\* listFile.Seek(0, io.SeekStart); io.ReadAll(listFile)
EReadList ==
    /\ pc = "e_readlist"
    /\ \E ok \in BOOLEAN :
         IF ok
         THEN /\ pc' = "e_concat"
              /\ UNCHANGED <<idx, convertedFiles, defers, exitCode, usagePrinted, fatalMsg>>
         ELSE Fatalf(<<"Failed to read temporary file">>)
    /\ UNCHANGED <<fsVars, cmd, bar, invocations, tickerOn, tick>>
    /\ EarlyFrame

\* the concatenation command is built, progressbar.NewOptions(100, ...),
\* the goroutine is started and cmd.Run() starts ffmpeg
EConcatStart ==
    /\ pc = "e_concat"
    /\ cmd' = ConcatCmd(outputFile)
    /\ bar' = 0
    /\ tickerOn' = TRUE
    /\ tick' = 0
    /\ invocations' = Append(invocations, Invocation(ConcatCmd(outputFile), "running", ""))
    /\ pc' = "e_concat_run"
    /\ UNCHANGED <<idx, convertedFiles, defers, exitCode, usagePrinted, fatalMsg>>
    /\ UNCHANGED fsVars
    /\ EarlyFrame

\* progressBar.Add(1)
BarAdd(b, n) == b + n

\* one iteration of the goroutine's loop; it runs until the process exits
ETick ==
    /\ tickerOn
    /\ pc # "exited"
    /\ tick < tickerIterations
    /\ bar' = IF ~verbose THEN BarAdd(bar, 1) ELSE bar
    /\ tick' = tick + 1
    /\ UNCHANGED <<mainVars, fsVars, cmd, invocations, tickerOn>>
    /\ EarlyFrame

\* cmd.Run() of the concatenation returns; without a final encode main
\* returns here; with one, the final ffmpeg is started
EConcatDone ==
    /\ pc = "e_concat_run"
    /\ \E ok \in BOOLEAN, partial \in BOOLEAN :
         /\ ok => partial
         /\ IF ~ok
            THEN /\ Fatalf(<<"ffmpeg failed with error">>)
                 /\ files' = IF partial THEN files \cup {cmd.out} ELSE files
                 /\ invocations' = SetLast(invocations, Invocation(cmd, "failed", "exit status 1"))
                 /\ UNCHANGED <<tempDirExists, listExists, listContent, cmd>>
            ELSE IF NeedsFinalEncode(outputFile)
            THEN /\ pc' = "e_final_run"
                 /\ files' = files \cup {cmd.out}
                 /\ cmd' = FinalCmd(outputFile)
                 /\ invocations' = Append(SetLast(invocations, Invocation(cmd, "ok", "")),
                                          Invocation(FinalCmd(outputFile), "running", ""))
                 /\ UNCHANGED <<idx, convertedFiles, defers, exitCode, usagePrinted, fatalMsg>>
                 /\ UNCHANGED <<tempDirExists, listExists, listContent>>
            ELSE /\ ReturnFromMain(files \cup {cmd.out})
                 /\ invocations' = SetLast(invocations, Invocation(cmd, "ok", ""))
                 /\ UNCHANGED cmd
    /\ UNCHANGED <<bar, tickerOn, tick>>
    /\ EarlyFrame

\* cmd.Run() of the final encode returns: os.Remove(flacFile), main returns
EFinalDone ==
    /\ pc = "e_final_run"
    /\ \E ok \in BOOLEAN, partial \in BOOLEAN :
         /\ ok => partial
         /\ IF ~ok
            THEN /\ Fatalf(<<"ffmpeg failed to re-encode to", outputFile>>)
                 /\ files' = IF partial THEN files \cup {cmd.out} ELSE files
                 /\ invocations' = SetLast(invocations, Invocation(cmd, "failed", "exit status 1"))
                 /\ UNCHANGED <<tempDirExists, listExists, listContent>>
            ELSE /\ ReturnFromMain((files \cup {cmd.out}) \ {flacFile(outputFile)})
                 /\ invocations' = SetLast(invocations, Invocation(cmd, "ok", ""))
    /\ UNCHANGED <<cmd, bar, tickerOn, tick>>
    /\ EarlyFrame

NextEarly ==
    \/ EShowHelp
    \/ EUsageError
    \/ EMkdirTemp
    \/ EReEncode
    \/ ECreateList
    \/ EWriteList
    \/ EReadList
    \/ EConcatStart
    \/ ETick
    \/ EConcatDone
    \/ EFinalDone

\* either variant of the pipeline
InitVariants == Init \/ InitEarly

NextVariants == Next \/ NextEarly

SpecVariants == InitVariants /\ [][NextVariants]_vars

\* C19: in both variants of the pipeline the progress indicator always holds
\* a value in 0..100; once the goroutine of the variant without parsing is
\* started, the indicator changes only by its increments of one, of which
\* there are at most 100.
C19_BarInRange ==
    /\ bar \in 0..100
    /\ tick \in 0..100
    /\ tickerOn => bar = (IF verbose THEN 0 ELSE tick)

C19_Witness ==
    /\ tickerOn
    /\ ~verbose
    /\ tick = 100
    /\ bar = 100
    /\ pc = "e_final_run"


(***************************************************************************)
(* Two runs of the tool on one machine.  Both compute the same tempDir,    *)
(* os.TempDir()/audio_concat; the list file of os.CreateTemp and the       *)
(* output path are each run's own and are left out.  Each run takes two    *)
(* input files.                                                            *)
(***************************************************************************)
Runs == {1, 2}

ConcInputSet ==
    { [dir |-> "/m", name |-> "a", ext |-> ".mp3", st |-> "regular"],
      [dir |-> "/n", name |-> "a", ext |-> ".mp3", st |-> "regular"],
      [dir |-> "/m", name |-> "b", ext |-> ".wav", st |-> "regular"],
      [dir |-> "/m", name |-> "c", ext |-> ".ogg", st |-> "regular"] }

InitConc ==
    /\ PipelineOff
    /\ ParseIdle
    /\ ValidateIdle
    /\ EarlyIdle
    /\ procs \in [Runs -> [pc : {"mkdir"}, idx : {1},
                           inputs : [1..2 -> ConcInputSet], converted : {<<>>}]]
    /\ sharedDir = FALSE
    /\ sharedFiles = {}

ConcFrame ==
    UNCHANGED <<mainVars, argVars, fsVars, runVars, parseVars, warned, valErr, earlyVars>>

PathsIn(fs) == {f.path : f \in fs}

\* os.MkdirAll(tempDir, 0755): succeeds whether or not the directory exists
CMkdir(p) ==
    /\ procs[p].pc = "mkdir"
    /\ \E ok \in BOOLEAN :
         IF ok
         THEN /\ sharedDir' = TRUE
              /\ procs' = [procs EXCEPT ![p].pc = "reencode"]
         ELSE /\ procs' = [procs EXCEPT ![p].pc = "failed"]
              /\ UNCHANGED sharedDir
    /\ UNCHANGED sharedFiles
    /\ ConcFrame

\* one iteration of the re-encode loop.  ffmpeg is started without -y and
\* without a terminal, so it exits with an error when its output exists;
\* it cannot create the output when the directory is gone.
CReEncode(p) ==
    /\ procs[p].pc = "reencode"
    /\ LET r == procs[p]
           out == convertedFile(r.inputs[r.idx])
           canWrite == sharedDir /\ out \notin PathsIn(sharedFiles)
       IN \E ok \in BOOLEAN :
            /\ ok => canWrite
            /\ IF ok
               THEN /\ sharedFiles' = sharedFiles \cup {[path |-> out, by |-> p]}
                    /\ procs' = [procs EXCEPT
                          ![p].converted = Append(r.converted, out),
                          ![p].idx = IF r.idx < Len(r.inputs) THEN r.idx + 1 ELSE r.idx,
                          ![p].pc = IF r.idx < Len(r.inputs) THEN "reencode" ELSE "concat"]
               ELSE /\ procs' = [procs EXCEPT ![p].pc = "failed"]
                    /\ UNCHANGED sharedFiles
    /\ UNCHANGED sharedDir
    /\ ConcFrame

\* the concatenation: ffmpeg reads every file the list names
CConcat(p) ==
    /\ procs[p].pc = "concat"
    /\ LET r == procs[p]
           allThere == \A k \in 1..Len(r.converted) : r.converted[k] \in PathsIn(sharedFiles)
       IN \E ok \in BOOLEAN :
            /\ ok => allThere
            /\ procs' = [procs EXCEPT ![p].pc = IF ok THEN "cleanup" ELSE "failed"]
    /\ UNCHANGED <<sharedDir, sharedFiles>>
    /\ ConcFrame

\* main returns: the deferred os.RemoveAll(tempDir)
CReturn(p) ==
    /\ procs[p].pc = "cleanup"
    /\ sharedDir' = FALSE
    /\ sharedFiles' = {}
    /\ procs' = [procs EXCEPT ![p].pc = "done"]
    /\ ConcFrame

NextConc == \E p \in Runs : CMkdir(p) \/ CReEncode(p) \/ CConcat(p) \/ CReturn(p)

SpecConc == InitConc /\ [][NextConc]_vars

\* C11: of two runs on one machine, each keeps its intermediate files until
\* its concatenation has read them: while a run is in its re-encode loop or
\* before its concatenation, every intermediate it has produced is still in
\* the temporary directory and is the file this run wrote.
C11_TempDirExclusive ==
    \A p \in DOMAIN procs :
        procs[p].pc \in {"reencode", "concat"} =>
            \A k \in 1..Len(procs[p].converted) :
                [path |-> procs[p].converted[k], by |-> p] \in sharedFiles

====
